---- MODULE Spec2Model ----
(***************************************************************************)
(* The leaderboard builders of double-bagz: the four GET handlers that     *)
(* scan the chain for Buy / Claim logs, fold them into per-wallet          *)
(* statistics, read bonusPercent per wallet, and return sorted rows.       *)
(*                                                                         *)
(*   "summary"    src/app/api/final-summary/route.ts    GET                *)
(*   "lbProvider" src/app/api/leaderboard/route.ts      GET (lines 33-127) *)
(*   "lbRpc"      src/app/api/leaderboard/route.ts      GET (lines 207-329)*)
(*   "single"     src/unnamed/part_001                  GET                *)
(*                                                                         *)
(* One build is one run of one handler.  Every step of a build is the code *)
(* between two awaits.  Amounts in USD are kept in thousandths.            *)
(***************************************************************************)
EXTENDS Integers, Sequences, FiniteSets, TLC

\* ------------------------------------------------------------------------
\* Bounds of the model
\* ------------------------------------------------------------------------
MaxBlock == 1      \* chain heights 0..MaxBlock
MaxChunk == 1      \* CHUNK_SIZE_BLOCKS drawn from 0..MaxChunk
MaxLogs == 2       \* logs on the chain
MaxVal == 2        \* userTotalBuys / allocationsClaimed carried by a log
MaxBonus == 1      \* bonusPercent() read results 0..MaxBonus
ScanMaxBlock == 3  \* chain heights of the range-scan specification
ScanMaxChunk == 2  \* CHUNK_SIZE_BLOCKS of the range-scan specification
ScanMaxLogs == 2   \* logs on the chain of the range-scan specification
RowsMaxLogs == 2   \* logs on the chain of the row specification
RowsMaxVal == 2    \* counter values 0..RowsMaxVal of the row specification
RankMaxBuys == 10  \* totalBuys 0..RankMaxBuys of the ranker specification

\* Program constants
ROW_CAP == 100                 \* rows.slice(0, 100)
PRICE_PER_BUY_MILLI == 100     \* PRICE_PER_BUY_USD = 0.1, in thousandths
BUYS_PER_PERCENT == 10         \* Math.floor(totalBuys / 10)

LATEST == -1                   \* the block tag "latest" of a log filter
NoBlock == LATEST - 1          \* a call that carries no block range

Routes == {"summary", "lbProvider", "lbRpc", "single"}
ChunkedRoutes == {"summary", "lbProvider", "lbRpc"}
Kinds == {"Buy", "Claim"}

Min(a, b) == IF a <= b THEN a ELSE b
Max(a, b) == IF a >= b THEN a ELSE b

\* ------------------------------------------------------------------------
\* Addresses.  A log carries the user as the bytes of topic 1; ethers
\* decodes them to the checksummed form (parsed.args.user), whatever the
\* letter case of the hex the node sent.  The handlers that call
\* toLowerCase() key their map by the lower-cased form.
\* ------------------------------------------------------------------------
TopicAddrs == {"0xab", "0xAB", "0xcd"}

getAddress(topic) ==
    CASE topic = "0xab" -> "0xAb"
      [] topic = "0xAB" -> "0xAb"
      [] topic = "0xcd" -> "0xCd"

toLowerCase(addr) ==
    CASE addr = "0xAb" -> "0xab"
      [] addr = "0xAB" -> "0xab"
      [] addr = "0xCd" -> "0xcd"
      [] OTHER -> addr

\* ------------------------------------------------------------------------
\* The chain: a height and the logs emitted so far, in (block, log index)
\* order.  A log that ethers cannot parse has wellFormed = FALSE.
\* aux is the third data word: buysInCurrentWindow in the deployed ABI,
\* read as newBonusPercent by the "lbProvider" handler.  logIndex is the
\* log's position on the chain.
\* ------------------------------------------------------------------------
LogRec(b, k, u, v, x, w) ==
    [block |-> b, kind |-> k, user |-> u, val |-> v, aux |-> x, wellFormed |-> w,
     logIndex |-> 0]

(* eth_getLogs: the logs of one contract/topic in an inclusive block range,
   in chain order.  hi = LATEST is the block tag "latest". *)
getLogs(logs, kind, lo, hi) ==
    SelectSeq(logs, LAMBDA l: /\ l.kind = kind
                              /\ l.block >= lo
                              /\ (hi = LATEST \/ l.block <= hi))

\* ------------------------------------------------------------------------
\* The RPC client.  net is what the network and the node do with one
\* request: "transport" (fetch rejects), "http" (res.ok is false),
\* "badjson" (res.json() rejects), "rpcerror" (the envelope carries an
\* error), "ok" (the envelope carries result).  A thrown Error is
\* [ok |-> FALSE, message |-> ...]; message.method is the method name the
\* message text contains, "none" when it contains none.
\* ------------------------------------------------------------------------
NetOutcomes == {"ok", "transport", "http", "badjson", "rpcerror"}
NetFailures == NetOutcomes \ {"ok"}

Thrown(text, method) == [ok |-> FALSE, message |-> [text |-> text, method |-> method]]
Returned(result) == [ok |-> TRUE, result |-> result]

(* callRpc of final-summary/route.ts and leaderboard/route.ts *)
callRpc(method, net, result) ==
    CASE net = "transport" -> Thrown("fetch failed", "none")
      [] net = "http"      -> Thrown("RPC HTTP status", method)
      [] net = "badjson"   -> Thrown("RPC invalid JSON response", method)
      [] net = "rpcerror"  -> Thrown("RPC error", method)
      [] net = "ok"        -> Returned(result)

(* provider.getBlockNumber() / provider.getLogs() of the ethers provider *)
providerCall(method, net, result) ==
    IF net = "ok" THEN Returned(result) ELSE Thrown("provider call failed", method)

(* the inline fetch of part_001: no try around fetch() or res.json() *)
inlineFetch(method, net, result) ==
    CASE net = "transport" -> Thrown("fetch failed", "none")
      [] net = "http"      -> Thrown("HTTP status", method)
      [] net = "badjson"   -> Thrown("Unexpected token in JSON", "none")
      [] net = "rpcerror"  -> Thrown("RPC error", method)
      [] net = "ok"        -> Returned(result)

rpcVia(r, method, net, result) ==
    CASE r = "single"     -> inlineFetch(method, net, result)
      [] r = "lbProvider" -> providerCall(method, net, result)
      [] OTHER            -> callRpc(method, net, result)

(* An entry of the history of calls issued: what was asked and whether the
   node answered it ("ok"), answered with a non-number ("garbled"), or the
   call failed ("failed"; the thrown message tells how). *)
Call(method, kind, lo, hi, wallet, net, value) ==
    [method |-> method, kind |-> kind, fromBlock |-> lo, toBlock |-> hi,
     wallet |-> wallet,
     answer |-> IF net \in NetFailures THEN "failed" ELSE net,
     value |-> value]

\* ------------------------------------------------------------------------
\* The Map userStats: a function from keys to stats, and the keys in
\* insertion order.  Handlers without a totalClaims field keep it 0.
\* ------------------------------------------------------------------------
Stats(buys, claims, bonus) ==
    [totalBuys |-> buys, totalClaims |-> claims, bonusPercent |-> bonus]

MapSet(m, k, v) == [x \in (DOMAIN m) \cup {k} |-> IF x = k THEN v ELSE m[x]]
KeysAfterSet(keys, m, k) == IF k \in DOMAIN m THEN keys ELSE Append(keys, k)

(* a key taken from the topic's hex as the node sent it *)
userKeyRawTopic(r, log) == log.user

(* The key a handler files a parsed log under. *)
userKey(r, log) ==
    IF r = "single" THEN getAddress(log.user)
    ELSE toLowerCase(getAddress(log.user))

(* a Buy fold that keeps the first running total it sees *)
foldBuyFirstWins(r, m, log) ==
    LET user == userKey(r, log)
    IN  IF user \in DOMAIN m /\ m[user].totalBuys > 0
        THEN m
        ELSE MapSet(m, user, Stats(log.val,
                                   IF user \in DOMAIN m THEN m[user].totalClaims ELSE 0,
                                   0))

(* the handlers whose Buy fold compares before it stores *)
CompareRoutes == {"summary", "lbRpc"}

(* a Buy fold that stores the event's running total whatever is stored *)
foldBuyLatest(r, m, log) ==
    LET user == userKey(r, log)
        has  == user \in DOMAIN m
    IN  IF r = "single"
        THEN MapSet(m, user, Stats((IF has THEN m[user].totalBuys ELSE 0) + 1, 0, 0))
        ELSE MapSet(m, user, Stats(log.val,
                                   IF has THEN m[user].totalClaims ELSE 0,
                                   IF has THEN m[user].bonusPercent ELSE 0))

(* One iteration of "for (const log of logs)" over a Buy log, after
   parseLog succeeded.  final-summary 135-147, leaderboard 76-88 and
   256-269, part_001 91-95. *)
foldBuy(r, m, log) ==
    LET user == userKey(r, log)
        has  == user \in DOMAIN m
    IN  CASE r = "summary" ->
               IF ~has \/ log.val > m[user].totalBuys
               THEN MapSet(m, user, Stats(log.val,
                                          IF has THEN m[user].totalClaims ELSE 0,
                                          IF has THEN m[user].bonusPercent ELSE 0))
               ELSE m
          [] r = "lbRpc" ->
               IF ~has \/ log.val > m[user].totalBuys
               THEN MapSet(m, user, Stats(log.val, 0, 0))
               ELSE m
          [] r = "lbProvider" ->
               MapSet(m, user, Stats(log.val, 0, log.aux))
          [] r = "single" ->
               MapSet(m, user, Stats((IF has THEN m[user].totalBuys ELSE 0) + 1, 0, 0))

(* a Claim fold that keeps the latest amount instead of adding it *)
foldClaimLatest(m, log) ==
    LET user     == toLowerCase(getAddress(log.user))
        existing == IF user \in DOMAIN m THEN m[user] ELSE Stats(0, 0, 0)
    IN  MapSet(m, user, [existing EXCEPT !.totalClaims = log.val])

(* a Claim fold that writes a new record holding the claims only *)
foldClaimClearsBuys(m, log) ==
    LET user     == toLowerCase(getAddress(log.user))
        existing == IF user \in DOMAIN m THEN m[user] ELSE Stats(0, 0, 0)
    IN  MapSet(m, user, Stats(0, existing.totalClaims + log.val, 0))

(* One iteration over a Claim log.  final-summary 177-191. *)
foldClaim(m, log) ==
    LET user     == toLowerCase(getAddress(log.user))
        existing == IF user \in DOMAIN m THEN m[user] ELSE Stats(0, 0, 0)
    IN  MapSet(m, user, [existing EXCEPT !.totalClaims = @ + log.val])

foldLog(r, m, log) ==
    IF log.kind = "Buy" THEN foldBuy(r, m, log) ELSE foldClaim(m, log)

(* Does the fold of this log write its key?  (Map.set on a key: a new key
   is appended to the iteration order.) *)
foldSets(r, m, log) ==
    \/ log.kind = "Claim"
    \/ r \in {"lbProvider", "single"}
    \/ userKey(r, log) \notin DOMAIN m
    \/ log.val > m[userKey(r, log)].totalBuys

(* A folded event: the parsed fields the fold reads, and which log it was. *)
Decoded(r, log) ==
    [kind |-> log.kind, user |-> userKey(r, log), val |-> log.val,
     block |-> log.block, logIndex |-> log.logIndex]

(* a loop that steps over a log it cannot decode and carries on *)
RECURSIVE foldLogsSkipUndecodable(_, _, _)
foldLogsSkipUndecodable(r, acc, logs) ==
    IF logs = << >> THEN acc
    ELSE LET log == Head(logs)
         IN  IF ~log.wellFormed
             THEN foldLogsSkipUndecodable(r, acc, Tail(logs))
             ELSE foldLogsSkipUndecodable(r,
                    [stats  |-> foldLog(r, acc.stats, log),
                     order  |-> IF foldSets(r, acc.stats, log)
                                THEN KeysAfterSet(acc.order, acc.stats, userKey(r, log))
                                ELSE acc.order,
                     events |-> Append(acc.events, Decoded(r, log)),
                     threw  |-> FALSE],
                    Tail(logs))

(* a loop that walks the returned logs from the last to the first *)
RECURSIVE foldLogsNewestFirst(_, _, _)
foldLogsNewestFirst(r, acc, logs) ==
    IF logs = << >> THEN acc
    ELSE LET log == logs[Len(logs)]
         IN  IF ~log.wellFormed
             THEN [acc EXCEPT !.threw = TRUE]
             ELSE foldLogsNewestFirst(r,
                    [stats  |-> foldLog(r, acc.stats, log),
                     order  |-> IF foldSets(r, acc.stats, log)
                                THEN KeysAfterSet(acc.order, acc.stats, userKey(r, log))
                                ELSE acc.order,
                     events |-> Append(acc.events, Decoded(r, log)),
                     threw  |-> FALSE],
                    SubSeq(logs, 1, Len(logs) - 1))

(* "for (const log of logs)": parseLog throws on a log it cannot decode and
   the loop is abandoned with the Map as the logs before it left it. *)
RECURSIVE foldLogs(_, _, _)
foldLogs(r, acc, logs) ==
    IF logs = << >> THEN acc
    ELSE LET log == Head(logs)
         IN  IF ~log.wellFormed
             THEN [acc EXCEPT !.threw = TRUE]
             ELSE foldLogs(r,
                    [stats  |-> foldLog(r, acc.stats, log),
                     order  |-> IF foldSets(r, acc.stats, log)
                                THEN KeysAfterSet(acc.order, acc.stats, userKey(r, log))
                                ELSE acc.order,
                     events |-> Append(acc.events, Decoded(r, log)),
                     threw  |-> FALSE],
                    Tail(logs))

\* ------------------------------------------------------------------------
\* Block numbers on the wire: "0x" + n.toString(16) and parseInt(s, 16).
\* ------------------------------------------------------------------------
HexDigits == <<"0", "1", "2", "3", "4", "5", "6", "7",
               "8", "9", "a", "b", "c", "d", "e", "f">>
NaN == NoBlock - 1

toHex(n) == "0x" \o HexDigits[n + 1]

(* a parse that gives 0 for what is not a hex quantity: parseInt(s, 16) || 0 *)
parseInt16OrZero(s) ==
    IF \E n \in 0..(Len(HexDigits) - 1) : toHex(n) = s
    THEN CHOOSE n \in 0..(Len(HexDigits) - 1) : toHex(n) = s
    ELSE 0

parseInt16(s) ==
    IF \E n \in 0..(Len(HexDigits) - 1) : toHex(n) = s
    THEN CHOOSE n \in 0..(Len(HexDigits) - 1) : toHex(n) = s
    ELSE NaN

\* ------------------------------------------------------------------------
\* Rows: filter, score, stable sort, cap.
\* ------------------------------------------------------------------------
(* bonusValueUsd in thousandths of a dollar.  final-summary 221-222,
   leaderboard 97-98 and 301-302, part_001 149. *)
bonusValueUsd(r, totalBuys, bonusPercent) ==
    IF r = "single"
    THEN totalBuys * PRICE_PER_BUY_MILLI
    ELSE (totalBuys * PRICE_PER_BUY_MILLI * (100 + bonusPercent)) \div 100

(* a row loop that looks at totalBuys only, in every handler *)
skipRowBuysOnly(r, st) ==
    CASE r = "single" -> FALSE
      [] OTHER        -> st.totalBuys = 0

(* the "continue" of the row loop *)
skipRow(r, st) ==
    CASE r = "summary" -> st.totalBuys = 0 /\ st.totalClaims = 0
      [] r = "single"  -> FALSE
      [] OTHER         -> st.totalBuys = 0

Row(r, wallet, st, maxBonusPercent) ==
    LET bonus == IF r = "single"
                 THEN Min(st.totalBuys \div BUYS_PER_PERCENT, maxBonusPercent)
                 ELSE st.bonusPercent
    IN  [wallet |-> wallet, totalBuys |-> st.totalBuys,
         totalClaims |-> st.totalClaims, bonusPercent |-> bonus,
         bonusValueUsd |-> bonusValueUsd(r, st.totalBuys, bonus)]

(* the row loop over userStats.entries(), in insertion order *)
buildRows(r, m, keys, maxBonusPercent) ==
    LET kept == SelectSeq(keys, LAMBDA k : ~skipRow(r, m[k]))
    IN  << >> \o [i \in 1..Len(kept) |->
                    Row(r, kept[i], m[kept[i]], maxBonusPercent)]

(* a comparator that forgets the bonusPercent tie-break *)
compareRowsBuysOnly(r, a, b) == b.totalBuys - a.totalBuys

(* the comparator handed to rows.sort: negative when a goes first *)
compareRows(r, a, b) ==
    IF r = "single" THEN b.totalBuys - a.totalBuys
    ELSE IF b.totalBuys # a.totalBuys THEN b.totalBuys - a.totalBuys
         ELSE b.bonusPercent - a.bonusPercent

(* an order that puts the later of two rows that compare equal first *)
goesBeforeUnstable(r, rows, i, j) ==
    \/ compareRows(r, rows[i], rows[j]) < 0
    \/ compareRows(r, rows[i], rows[j]) = 0 /\ i > j

(* Array.prototype.sort is stable: of two rows that compare equal, the one
   that was earlier in the array stays earlier. *)
goesBefore(r, rows, i, j) ==
    \/ compareRows(r, rows[i], rows[j]) < 0
    \/ compareRows(r, rows[i], rows[j]) = 0 /\ i < j

(* a sort that leaves the rows in Map order *)
sortRowsNoop(r, rows) == rows

(* rows.sort(compare): every row goes to the place after the rows that go
   before it. *)
sortRows(r, rows) ==
    LET n     == Len(rows)
        place == << >> \o [i \in 1..n |->
                   1 + Cardinality({ j \in 1..n : goesBefore(r, rows, j, i) })]
    IN  << >> \o [k \in 1..n |-> rows[CHOOSE i \in 1..n : place[i] = k]]

(* rows.slice(0, 100) in part_001; the other handlers return every row *)
capRows(r, rows) ==
    IF r = "single" THEN SubSeq(rows, 1, Min(Len(rows), ROW_CAP)) ELSE rows

rankRows(r, m, keys, maxBonusPercent) ==
    capRows(r, sortRows(r, buildRows(r, m, keys, maxBonusPercent)))

\* ------------------------------------------------------------------------
\* Responses
\* ------------------------------------------------------------------------
errorText(r) ==
    IF r = "summary" THEN "Failed to build final summary"
    ELSE "Failed to build leaderboard"

(* a handler that answers an empty leaderboard with an error *)
Respond200UnlessEmpty(rows) ==
    IF rows = << >>
    THEN [status |-> 500, error |-> "No participants", details |-> << >>]
    ELSE [status |-> 200, rows |-> rows]

Respond200(rows) == [status |-> 200, rows |-> rows]
Respond500(r, message) ==
    [status |-> 500, error |-> errorText(r), details |-> message]
RespondMissingEnv ==
    [status |-> 500,
     error |-> "Missing LINEA_RPC_URL, BUY_CONTRACT_ADDRESS or BUY_DEPLOY_BLOCK env vars"]

VARIABLES
    route,              \* which handler this build runs
    env,                \* process.env: which variables are set
    chunkSizeBlocks,    \* CHUNK_SIZE_BLOCKS
    buyDeployBlock,     \* BUY_DEPLOY_BLOCK / DEPLOY_BLOCK
    claimDeployBlock,   \* CLAIM_DEPLOY_BLOCK
    chainHeight,        \* the node's current block number
    chainLogs,          \* the logs on the chain, in chain order
    pc,                 \* position of the handler
    latestBlock,        \* const latestBlock
    fromBlock,          \* the scan loop's fromBlock
    userStats,          \* the Map / Record: key -> stats
    userOrder,          \* insertion order of the Map's keys
    enrichIdx,          \* position of the enrichment loop in userOrder
    rpcLog,             \* every RPC issued so far, with the node's answer
    events,             \* every decoded event folded so far, in fold order
    response,           \* the NextResponse returned, [status |-> 0] before
    past                \* the earlier invocations: what each asked and answered

cfgVars == <<route, env, chunkSizeBlocks, buyDeployBlock, claimDeployBlock,
             chainHeight, chainLogs>>
vars == <<route, env, chunkSizeBlocks, buyDeployBlock, claimDeployBlock,
          chainHeight, chainLogs, pc, latestBlock, fromBlock, userStats,
          userOrder, enrichIdx, rpcLog, events, response, past>>

\* ------------------------------------------------------------------------
\* Initial states: a configuration, a chain, and a handler about to run.
\* ------------------------------------------------------------------------
IsChainOrdered(logs) ==
    \A i \in 1..Len(logs) : \A j \in 1..Len(logs) :
        i < j => logs[i].block <= logs[j].block

(* The logs a handler's contract can hold.  Fields the handler never reads
   are fixed: aux unless the handler decodes newBonusPercent, val where the
   handler counts occurrences, and all fields of an unparsable log. *)
LogsOf(r, height, users, vals) ==
    LET kinds == IF r = "summary" THEN Kinds ELSE {"Buy"}
        vs    == IF r = "single" THEN {1} ELSE vals
        xs    == IF r = "lbProvider" THEN {0, MaxBonus} ELSE {0}
    IN  { LogRec(b, k, u, v, x, TRUE) :
            b \in 0..height, k \in kinds, u \in users, v \in vs, x \in xs }

BadLogsOf(r, height) ==
    LET kinds == IF r = "summary" THEN Kinds ELSE {"Buy"}
    IN  { LogRec(b, k, "0xab", 0, 0, FALSE) : b \in 0..height, k \in kinds }

ChainsOver(logset, maxLogs) ==
    { [i \in DOMAIN s |-> [s[i] EXCEPT !.logIndex = i]] :
        s \in { t \in UNION { [1..n -> logset] : n \in 0..maxLogs } :
                  IsChainOrdered(t) } }

InitBuild ==
    /\ pc = "start"
    /\ latestBlock = 0
    /\ fromBlock = 0
    /\ userStats = << >>
    /\ userOrder = << >>
    /\ enrichIdx = 1
    /\ rpcLog = << >>
    /\ events = << >>
    /\ response = [status |-> 0]
    /\ past = << >>

(* Only the "single" handler reads its contract address, endpoint and deploy
   block from the environment; the others have them as literals. *)
InitConfig(chunks, deploys, envDeploys) ==
    /\ route \in Routes
    /\ env \in IF route = "single"
               THEN [rpcUrl : BOOLEAN, address : BOOLEAN]
               ELSE {[rpcUrl |-> TRUE, address |-> TRUE]}
    /\ chunkSizeBlocks \in IF route \in ChunkedRoutes THEN chunks ELSE {0}
    /\ buyDeployBlock \in IF route = "single" THEN envDeploys ELSE deploys
    /\ claimDeployBlock \in IF route = "summary" THEN deploys ELSE {0}

(* The handlers as written: deploy blocks are the literal 0 (the "single"
   handler reads its own from the environment, 0 when unset), the chain is small but its logs
   take every shape.  A Buy log carries the buyer's running total after the
   buy and a Claim log the allocations claimed: both are at least 1. *)
Init ==
    /\ InitConfig(0..MaxChunk, {0}, 0..(MaxBlock + 1))
    /\ chainHeight \in 0..MaxBlock
    /\ chainLogs \in ChainsOver(LogsOf(route, chainHeight, {"0xab", "0xcd"}, 1..MaxVal)
                                  \cup BadLogsOf(route, chainHeight), MaxLogs)
    /\ InitBuild

\* ------------------------------------------------------------------------
\* The handlers, one action per stretch of code between two awaits.
\* ------------------------------------------------------------------------
(* a catch that answers with the rows of what was folded before the throw *)
FailBestEffort(message) ==
    /\ pc' = "done"
    /\ response' = Respond200(rankRows(route, userStats, userOrder, 0))

Fail(message) ==
    /\ pc' = "done"
    /\ response' = Respond500(route, message)

(* const latestBlock = parseInt(await callRpc("eth_blockNumber", []), 16)
   or await provider.getBlockNumber(); then the first loop's initialiser.
   garbled: the node's result is not a hex quantity (the ethers provider
   rejects such a result itself, which is one of its failures). *)
BlockNumber ==
    /\ pc = "start"
    /\ route \in ChunkedRoutes
    /\ \E net \in NetOutcomes, garbled \in BOOLEAN :
         LET res    == rpcVia(route, "eth_blockNumber", net,
                              IF garbled THEN "0x" ELSE toHex(chainHeight))
             parsed == IF res.ok THEN parseInt16(res.result) ELSE NaN
         IN  /\ garbled => (net = "ok" /\ route # "lbProvider")
             /\ rpcLog' = Append(rpcLog,
                    Call("eth_blockNumber", "none", NoBlock, NoBlock, "none",
                         IF garbled THEN "garbled" ELSE net, NaN))
             /\ IF ~res.ok
                THEN Fail(res.message) /\ UNCHANGED <<latestBlock, fromBlock>>
                ELSE IF parsed = NaN
                THEN /\ Fail([text |-> "Could not parse latest block number",
                              method |-> "none"])
                     /\ UNCHANGED <<latestBlock, fromBlock>>
                ELSE /\ latestBlock' = parsed
                     /\ fromBlock' = buyDeployBlock
                     /\ pc' = "buyScan"
                     /\ UNCHANGED response
    /\ UNCHANGED <<cfgVars, past, userStats, userOrder, enrichIdx, events>>

(* a sub-range that always runs to the height *)
chunkToLatest(from, chunk, latest) == latest

(* const toBlock = Math.min(fromBlock + CHUNK_SIZE_BLOCKS, latestBlock) *)
chunkTo(from, chunk, latest) == Min(from + chunk, latest)

(* a loop increment that forgets the + 1 *)
nextFromNoPlusOne(from, chunk) == from + chunk

(* a loop increment that leaves one block between two sub-ranges *)
nextFromGap(from, chunk) == from + chunk + 2

(* fromBlock += CHUNK_SIZE_BLOCKS + 1 *)
nextFrom(from, chunk) == from + chunk + 1

(* One iteration of a scan loop: the eth_getLogs of one sub-range, the fold
   of the logs it returned, and the loop's increment. *)
ScanChunk(kind) ==
    LET toBlock == chunkTo(fromBlock, chunkSizeBlocks, latestBlock)
        lo      == IF route = "lbProvider" THEN fromBlock
                   ELSE parseInt16(toHex(fromBlock))
        hi      == IF route = "lbProvider" THEN toBlock
                   ELSE parseInt16(toHex(toBlock))
    IN  /\ fromBlock <= latestBlock
        /\ \E net \in NetOutcomes :
             LET res == rpcVia(route, "eth_getLogs", net,
                               getLogs(chainLogs, kind, lo, hi))
                 acc == foldLogs(route,
                                 [stats |-> userStats, order |-> userOrder,
                                  events |-> events, threw |-> FALSE],
                                 IF res.ok THEN res.result ELSE << >>)
             IN  /\ rpcLog' = Append(rpcLog,
                                     Call("eth_getLogs", kind, lo, hi, "none", net, NaN))
                 /\ userStats' = acc.stats
                 /\ userOrder' = acc.order
                 /\ events' = acc.events
                 /\ IF ~res.ok
                    THEN Fail(res.message) /\ UNCHANGED fromBlock
                    ELSE IF acc.threw
                    THEN /\ Fail([text |-> "parseLog: no matching event",
                                  method |-> "none"])
                         /\ UNCHANGED fromBlock
                    ELSE /\ fromBlock' = nextFrom(fromBlock, chunkSizeBlocks)
                         /\ UNCHANGED <<pc, response>>
        /\ UNCHANGED <<cfgVars, past, latestBlock, enrichIdx>>

BuyChunk ==
    /\ pc = "buyScan"
    /\ ScanChunk("Buy")

ClaimChunk ==
    /\ pc = "claimScan"
    /\ ScanChunk("Claim")

(* The Buy loop's condition fails: on to the Claim loop (final-summary) or
   to the enrichment loop (leaderboard, raw RPC). *)
BuyScanEnd ==
    /\ pc = "buyScan"
    /\ route \in {"summary", "lbRpc"}
    /\ fromBlock > latestBlock
    /\ IF route = "summary"
       THEN pc' = "claimScan" /\ fromBlock' = claimDeployBlock
       ELSE pc' = "enrich" /\ UNCHANGED fromBlock
    /\ UNCHANGED <<cfgVars, past, latestBlock, userStats, userOrder, enrichIdx,
                   rpcLog, events, response>>

ClaimScanEnd ==
    /\ pc = "claimScan"
    /\ fromBlock > latestBlock
    /\ pc' = "enrich"
    /\ UNCHANGED <<cfgVars, past, latestBlock, fromBlock, userStats, userOrder,
                   enrichIdx, rpcLog, events, response>>

(* a failed read that clobbers the wallet's record *)
enrichStatsClobber(m, wallet, res) ==
    IF res.ok
    THEN MapSet(m, wallet, [m[wallet] EXCEPT !.bonusPercent = res.result])
    ELSE MapSet(m, wallet, Stats(0, 0, 0))

(* a read whose value is stored on every record of the Map *)
enrichStatsEveryWallet(m, wallet, res) ==
    IF res.ok
    THEN [k \in DOMAIN m |-> [m[k] EXCEPT !.bonusPercent = res.result]]
    ELSE m

(* a read whose value is stored only while no record has a bonus yet *)
enrichStatsFirstWins(m, wallet, res) ==
    IF res.ok /\ \A k \in DOMAIN m : m[k].bonusPercent = 0
    THEN MapSet(m, wallet, [m[wallet] EXCEPT !.bonusPercent = res.result])
    ELSE m

(* try { stats.bonusPercent = bp; userStats.set(wallet, stats) }
   catch (e) { console.error(...) } *)
enrichStats(m, wallet, res) ==
    IF res.ok
    THEN MapSet(m, wallet, [m[wallet] EXCEPT !.bonusPercent = res.result])
    ELSE m

(* a read loop that starts while the Claim scan is still running *)
EnrichWalletDuringScan ==
    /\ pc \in {"claimScan", "enrich"}
    /\ enrichIdx <= Len(userOrder)
    /\ \E net \in NetOutcomes, bp \in 0..MaxBonus :
         LET wallet == userOrder[enrichIdx]
             res    == callRpc("eth_call", net, bp)
         IN  /\ net # "ok" => bp = 0
             /\ rpcLog' = Append(rpcLog,
                    Call("eth_call", "bonusPercent", NoBlock, NoBlock, wallet, net,
                         IF res.ok THEN res.result ELSE NaN))
             /\ userStats' = enrichStats(userStats, wallet, res)
    /\ enrichIdx' = enrichIdx + 1
    /\ UNCHANGED <<cfgVars, past, pc, latestBlock, fromBlock, userOrder, events, response>>

(* One iteration of "for (const [wallet, stats] of userStats.entries())":
   the eth_call of bonusPercent(wallet); a failure is caught and logged. *)
EnrichWallet ==
    /\ pc = "enrich"
    /\ enrichIdx <= Len(userOrder)
    /\ \E net \in NetOutcomes, bp \in 0..MaxBonus :
         LET wallet == userOrder[enrichIdx]
             res    == callRpc("eth_call", net, bp)
         IN  /\ net # "ok" => bp = 0
             /\ rpcLog' = Append(rpcLog,
                    Call("eth_call", "bonusPercent", NoBlock, NoBlock, wallet, net,
                         IF res.ok THEN res.result ELSE NaN))
             /\ userStats' = enrichStats(userStats, wallet, res)
    /\ enrichIdx' = enrichIdx + 1
    /\ UNCHANGED <<cfgVars, past, pc, latestBlock, fromBlock, userOrder, events, response>>

(* The row loop, the sort and the 200 response. *)
BuildRows ==
    /\ \/ pc = "enrich" /\ enrichIdx > Len(userOrder)
       \/ pc = "buyScan" /\ route = "lbProvider" /\ fromBlock > latestBlock
    /\ pc' = "done"
    /\ response' = Respond200(rankRows(route, userStats, userOrder, 0))
    /\ UNCHANGED <<cfgVars, past, latestBlock, fromBlock, userStats, userOrder,
                   enrichIdx, rpcLog, events>>

(* part_001: the guard on the environment. *)
EnvMissing ==
    ~env.rpcUrl \/ ~env.address \/ buyDeployBlock = 0

RejectConfig ==
    /\ pc = "start"
    /\ route = "single"
    /\ EnvMissing
    /\ pc' = "done"
    /\ response' = RespondMissingEnv
    /\ UNCHANGED <<cfgVars, past, latestBlock, fromBlock, userStats, userOrder,
                   enrichIdx, rpcLog, events>>

(* part_001: the one eth_getLogs from the deploy block to "latest", and the
   count of Buy logs per user. *)
SingleGetLogs ==
    /\ pc = "start"
    /\ route = "single"
    /\ ~EnvMissing
    /\ \E net \in NetOutcomes :
         LET lo  == parseInt16(toHex(buyDeployBlock))
             res == inlineFetch("eth_getLogs", net,
                                getLogs(chainLogs, "Buy", lo, LATEST))
             acc == foldLogs(route,
                             [stats |-> userStats, order |-> userOrder,
                              events |-> events, threw |-> FALSE],
                             IF res.ok THEN res.result ELSE << >>)
         IN  /\ rpcLog' = Append(rpcLog,
                                 Call("eth_getLogs", "Buy", lo, LATEST, "none", net, NaN))
             /\ userStats' = acc.stats
             /\ userOrder' = acc.order
             /\ events' = acc.events
             /\ IF ~res.ok
                THEN Fail(res.message)
                ELSE IF acc.threw
                THEN Fail([text |-> "parseLog: no matching event", method |-> "none"])
                ELSE pc' = "maxBonus" /\ UNCHANGED response
    /\ UNCHANGED <<cfgVars, past, latestBlock, fromBlock, enrichIdx>>

(* part_001: the eth_call of maxBonusPercent(), the rows, the sort, the cap. *)
SingleMaxBonus ==
    /\ pc = "maxBonus"
    /\ \E net \in NetOutcomes, maxBonusPercent \in 0..MaxBonus :
         LET res == inlineFetch("eth_call", net, maxBonusPercent)
         IN  /\ net # "ok" => maxBonusPercent = 0
             /\ rpcLog' = Append(rpcLog,
                    Call("eth_call", "maxBonusPercent", NoBlock, NoBlock, "none", net,
                         IF res.ok THEN res.result ELSE NaN))
             /\ pc' = "done"
             /\ response' = IF res.ok
                            THEN Respond200(rankRows(route, userStats, userOrder,
                                                     res.result))
                            ELSE Respond500(route, res.message)
    /\ UNCHANGED <<cfgVars, past, latestBlock, fromBlock, userStats, userOrder,
                   enrichIdx, events>>

Next ==
    \/ BlockNumber
    \/ BuyChunk
    \/ BuyScanEnd
    \/ ClaimChunk
    \/ ClaimScanEnd
    \/ EnrichWallet
    \/ BuildRows
    \/ RejectConfig
    \/ SingleGetLogs
    \/ SingleMaxBonus

Spec == Init /\ [][Next]_vars

(* a Map kept at module level, so that an invocation starts from the Map
   the earlier one left *)
freshMapKept(left) == left

(* "const userStats = new Map()" / "const totals = {}" inside GET: every
   invocation starts from an empty Map, whatever the earlier one left. *)
freshMap(left) == [stats |-> << >>, order |-> << >>]

(* GET is invoked again after it has answered: same module constants, same
   chain; everything declared inside GET is new. *)
GetAgain ==
    /\ pc = "done"
    /\ past = << >>
    /\ past' = Append(past, [response |-> response, rpcLog |-> rpcLog])
    /\ LET map == freshMap([stats |-> userStats, order |-> userOrder])
       IN  userStats' = map.stats /\ userOrder' = map.order
    /\ pc' = "start"
    /\ latestBlock' = 0
    /\ fromBlock' = 0
    /\ enrichIdx' = 1
    /\ rpcLog' = << >>
    /\ events' = << >>
    /\ response' = [status |-> 0]
    /\ UNCHANGED cfgVars

NextTwice ==
    \/ Next
    \/ GetAgain

(* Two invocations, one after the other, against one chain whose logs all
   sit in the block at the height. *)
InitTwice ==
    /\ InitConfig({1}, {0}, {0, 1})
    /\ chainHeight = 1
    /\ chainLogs \in ChainsOver({ l \in LogsOf(route, chainHeight, {"0xab", "0xcd"},
                                                1..MaxVal) : l.block = chainHeight },
                                 MaxLogs)
    /\ InitBuild

SpecTwice == InitTwice /\ [][NextTwice]_vars

(* Two invocations in flight at once.  GET is an async function: at every
   await the event loop may resume another invocation.  The state variables
   are the locals of the invocation that is running; those of the suspended
   one wait in past. *)
PairMaxLogs == 2
PairMaxVal == 1

Context(p, latest, from, stats, order, idx, log, evs, resp) ==
    [pc |-> p, latestBlock |-> latest, fromBlock |-> from, userStats |-> stats,
     userOrder |-> order, enrichIdx |-> idx, rpcLog |-> log, events |-> evs,
     response |-> resp]

Running ==
    Context(pc, latestBlock, fromBlock, userStats, userOrder, enrichIdx,
            rpcLog, events, response)

NotStarted == Context("start", 0, 0, << >>, << >>, 1, << >>, << >>, [status |-> 0])

(* a Map declared at module level: the resumed invocation finds it as the
   other invocation left it *)
resumedMapShared(own, others) == others

(* "const userStats = new Map()" is a local of GET: the resumed invocation
   finds its own Map, whatever the other invocation did to its own. *)
resumedMap(own, others) == own

(* The event loop suspends the running invocation at its await and resumes
   the other one. *)
Switch ==
    /\ Len(past) = 1
    /\ past[1].pc # "done"
    /\ past' = << Running >>
    /\ LET map == resumedMap([stats |-> past[1].userStats, order |-> past[1].userOrder],
                             [stats |-> userStats, order |-> userOrder])
       IN  userStats' = map.stats /\ userOrder' = map.order
    /\ pc' = past[1].pc
    /\ latestBlock' = past[1].latestBlock
    /\ fromBlock' = past[1].fromBlock
    /\ enrichIdx' = past[1].enrichIdx
    /\ rpcLog' = past[1].rpcLog
    /\ events' = past[1].events
    /\ response' = past[1].response
    /\ UNCHANGED cfgVars

NextPair ==
    \/ BlockNumber
    \/ BuyChunk
    \/ ClaimChunk
    \/ BuyScanEnd
    \/ ClaimScanEnd
    \/ EnrichWallet
    \/ BuildRows
    \/ Switch

InitPair ==
    /\ InitConfig({1}, {0}, {0})
    /\ route \in CompareRoutes
    /\ chainHeight = 1
    /\ chainLogs \in ChainsOver({ l \in LogsOf(route, chainHeight, {"0xab", "0xcd"},
                                                1..PairMaxVal) : l.block = chainHeight },
                                 PairMaxLogs)
    /\ pc = "start"
    /\ latestBlock = 0
    /\ fromBlock = 0
    /\ userStats = << >>
    /\ userOrder = << >>
    /\ enrichIdx = 1
    /\ rpcLog = << >>
    /\ events = << >>
    /\ response = [status |-> 0]
    /\ past = << NotStarted >>

SpecPair == InitPair /\ [][NextPair]_vars

(* The fold alone: the scans of the comparing handlers over chains of more
   logs, up to the end of the last scan. *)
FoldMaxLogs == 3
FoldMaxVal == 2

InitFold ==
    /\ InitConfig({1}, {0}, {0})
    /\ route \in CompareRoutes
    /\ chainHeight = 1
    /\ chainLogs \in ChainsOver({ l \in LogsOf(route, chainHeight, {"0xab", "0xcd"},
                                                1..FoldMaxVal) : l.block = chainHeight },
                                 FoldMaxLogs)
    /\ InitBuild

NextFold ==
    \/ BlockNumber
    \/ BuyChunk
    \/ ClaimChunk
    \/ BuyScanEnd
    \/ ClaimScanEnd

SpecFold == InitFold /\ [][NextFold]_vars

(* Builds that run on: every call of a build is answered or fails in the
   end (each await settles), so a build that can take a step takes one. *)
LiveMaxBlock == 2
LiveMaxChunk == 1
LiveMaxLogs == 2

(* a chain of n Buy logs in the block at the height, sent in turn by two
   participants *)
LiveChain(n) ==
    [i \in 1..n |->
       [LogRec(chainHeight, "Buy", IF i % 2 = 1 THEN "0xab" ELSE "0xcd", 1, 0, TRUE)
          EXCEPT !.logIndex = i]]

InitLive ==
    /\ InitConfig(0..LiveMaxChunk, 0..(LiveMaxBlock + 1), 0..(LiveMaxBlock + 1))
    /\ chainHeight \in 0..LiveMaxBlock
    /\ chainLogs \in { LiveChain(n) : n \in 0..LiveMaxLogs }
    /\ InitBuild

SpecLive == InitLive /\ [][Next]_vars /\ WF_vars(Next)

(* The range scan over every deploy block, height and chunk size: longer
   chains, any deploy block up to one past the height bound, and logs that
   differ only in kind and position. *)
InitScan ==
    /\ InitConfig(0..ScanMaxChunk, 0..(ScanMaxBlock + 1), 0..(ScanMaxBlock + 1))
    /\ chainHeight \in 0..ScanMaxBlock
    /\ chainLogs \in ChainsOver(LogsOf(route, chainHeight, {"0xab"}, {1}), ScanMaxLogs)
    /\ InitBuild

SpecScan == InitScan /\ [][Next]_vars

(* The rows of a build: every log sits in the one block at the height, one
   sub-range covers it, and the logs take every counter value from 0 and
   every spelling of the user's address the node can send. *)
InitRows ==
    /\ InitConfig({1}, {0}, {0, 1})
    /\ chainHeight = 1
    /\ chainLogs \in ChainsOver({ l \in LogsOf(route, chainHeight, TopicAddrs,
                                                0..RowsMaxVal) : l.block = chainHeight },
                                 RowsMaxLogs)
    /\ InitBuild

SpecRows == InitRows /\ [][Next]_vars

(* The ranker alone: the row loop, the sort and the cap applied to a Map as
   the scans and the reads can leave it.  The keys are lower-cased where the
   handler lower-cases them; "single" counts events, so its counters start
   at 1 and it stores no claims and no bonus; only final-summary stores
   claims.  The histories of calls and events, which the ranker never
   reads, are left empty. *)
RankKeys(r) == IF r = "single" THEN {"0xAb", "0xCd"} ELSE {"0xab", "0xcd"}

RankStats(r) ==
    CASE r = "summary" ->
           { Stats(b, c, p) : b \in 0..RankMaxBuys, c \in {0, 1}, p \in 0..MaxBonus }
      [] r = "single" ->
           { Stats(b, 0, 0) : b \in 1..RankMaxBuys }
      [] OTHER ->
           { Stats(b, 0, p) : b \in 0..RankMaxBuys, p \in 0..MaxBonus }

(* the insertion orders of a Map over some of these keys *)
OrdersOf(keys) ==
    { s \in UNION { [1..n -> keys] : n \in 0..Cardinality(keys) } :
        \A i \in 1..Len(s) : \A j \in 1..Len(s) : i # j => s[i] # s[j] }

(* the k-th of many wallets, and a Map of n of them in that order *)
Wallet(k) ==
    "0x" \o HexDigits[(k \div Len(HexDigits)) + 1]
         \o HexDigits[(k % Len(HexDigits)) + 1]

LongOrder(n) == [k \in 1..n |-> Wallet(k)]

(* The Maps over an insertion order: every combination of stats for a few
   wallets; for many wallets one buy each, but for the first or the last
   inserted, which has one more. *)
RankMaps(r, order) ==
    LET keys == { order[i] : i \in 1..Len(order) }
    IN  IF Len(order) <= Cardinality(RankKeys(r))
        THEN [keys -> RankStats(r)]
        ELSE { [w \in keys |-> Stats(IF w = order[top] THEN 2 ELSE 1, 0, 0)] :
                 top \in {1, Len(order)} }

InitRank ==
    /\ InitConfig({0}, {0}, {1})
    /\ route = "single" => ~EnvMissing
    /\ chainHeight = 0
    /\ chainLogs = << >>
    /\ userOrder \in OrdersOf(RankKeys(route))
                       \cup { LongOrder(n) : n \in {ROW_CAP, ROW_CAP + 1} }
    /\ userStats \in RankMaps(route, userOrder)
    /\ pc = CASE route = "single"     -> "maxBonus"
              [] route = "lbProvider" -> "buyScan"
              [] OTHER                -> "enrich"
    /\ latestBlock = 0
    /\ fromBlock = nextFrom(latestBlock, chunkSizeBlocks)
    /\ enrichIdx = Len(userOrder) + 1
    /\ rpcLog = << >>
    /\ events = << >>
    /\ response = [status |-> 0]
    /\ past = << >>

NextRank ==
    \/ BuildRows
    \/ SingleMaxBonus

SpecRank == InitRank /\ [][NextRank]_vars

\* ========================================================================
\* Properties
\* ========================================================================
LogCalls(kind) ==
    SelectSeq(rpcLog, LAMBDA c : c.method = "eth_getLogs" /\ c.kind = kind)

deployOf(kind) == IF kind = "Buy" THEN buyDeployBlock ELSE claimDeployBlock

(* the scan loop of this kind has run to its end *)
ScanComplete(kind) ==
    IF kind = "Buy"
    THEN route \in ChunkedRoutes
         /\ (pc \in {"claimScan", "enrich"} \/ response.status = 200)
    ELSE route = "summary" /\ (pc = "enrich" \/ response.status = 200)

Covering(q, b) ==
    Cardinality({ i \in 1..Len(q) : q[i].fromBlock <= b /\ b <= q[i].toBlock })

BlocksInSight == 0..(ScanMaxBlock + ScanMaxChunk + 2)

\* C1: the sub-ranges queried by a chunked scan start at the deploy block,
\* each next one starts at the previous end + 1, none is empty or reaches
\* past the height, no block is queried twice or outside [deploy, height],
\* and once the loop has ended every block of [deploy, height] has been
\* queried exactly once, the last sub-range ending at the height.
C1_SubRangesPartitionTheInterval ==
    route \in ChunkedRoutes =>
      \A kind \in Kinds :
        LET q == LogCalls(kind)
            inside(b) == deployOf(kind) <= b /\ b <= latestBlock
        IN  /\ q # << >> => q[1].fromBlock = deployOf(kind)
            /\ \A i \in 1..(Len(q) - 1) : q[i + 1].fromBlock = q[i].toBlock + 1
            /\ \A i \in 1..Len(q) :
                 q[i].fromBlock <= q[i].toBlock /\ q[i].toBlock <= latestBlock
            /\ \A b \in BlocksInSight :
                 Covering(q, b) <= (IF inside(b) THEN 1 ELSE 0)
            /\ ScanComplete(kind) =>
                 /\ \A b \in BlocksInSight :
                      Covering(q, b) = (IF inside(b) THEN 1 ELSE 0)
                 /\ deployOf(kind) <= latestBlock =>
                      q # << >> /\ q[Len(q)].toBlock = latestBlock

\* C1 witness: a Claim scan that started above block 0, took several
\* sub-ranges and ended on a sub-range cut short by the height.
C1_Witness ==
    /\ route = "summary"
    /\ pc = "enrich"
    /\ claimDeployBlock >= 1
    /\ chunkSizeBlocks >= 1
    /\ Len(LogCalls("Claim")) >= 2
    /\ LET q == LogCalls("Claim")
       IN  q[Len(q)].toBlock - q[Len(q)].fromBlock < chunkSizeBlocks

\* C2: every log query of a chunked scan spans at most CHUNK_SIZE_BLOCKS
\* blocks, toBlock - fromBlock + 1 <= CHUNK_SIZE_BLOCKS (stated for chunk
\* sizes of at least one block).
C2_QueryNoWiderThanChunkSize ==
    (route \in ChunkedRoutes /\ chunkSizeBlocks >= 1) =>
      \A i \in 1..Len(rpcLog) :
        rpcLog[i].method = "eth_getLogs" =>
          rpcLog[i].toBlock - rpcLog[i].fromBlock + 1 <= chunkSizeBlocks

\* What the loops do instead: a query spans at most CHUNK_SIZE_BLOCKS + 1
\* blocks, and a full sub-range spans exactly that many.
C2_QueryNoWiderThanChunkSizePlusOne ==
    route \in ChunkedRoutes =>
      \A i \in 1..Len(rpcLog) :
        rpcLog[i].method = "eth_getLogs" =>
          /\ rpcLog[i].toBlock - rpcLog[i].fromBlock + 1 <= chunkSizeBlocks + 1
          /\ rpcLog[i].toBlock < latestBlock =>
               rpcLog[i].toBlock - rpcLog[i].fromBlock + 1 = chunkSizeBlocks + 1

\* ------------------------------------------------------------------------
\* Folding
\* ------------------------------------------------------------------------
RECURSIVE SeqMax(_)
SeqMax(vs) == IF vs = << >> THEN 0 ELSE Max(Head(vs), SeqMax(Tail(vs)))

RECURSIVE SeqSum(_)
SeqSum(vs) == IF vs = << >> THEN 0 ELSE Head(vs) + SeqSum(Tail(vs))

(* the values carried by the folded events of one kind for one participant *)
ValsOf(evs, kind, user) ==
    LET mine == SelectSeq(evs, LAMBDA ev : ev.kind = kind /\ ev.user = user)
    IN  [i \in 1..Len(mine) |-> mine[i].val]

(* the values carried by the chain's logs of one kind for one participant *)
ChainValsOf(kind, user, lo, hi) ==
    LET mine == SelectSeq(getLogs(chainLogs, kind, lo, hi),
                          LAMBDA l : toLowerCase(getAddress(l.user)) = user)
    IN  [i \in 1..Len(mine) |-> mine[i].val]

RunningTotalRoutes == {"summary", "lbProvider", "lbRpc"}

\* C3: in every handler that folds the running total of Buy events, the
\* stored totalBuys of a participant is the maximum running total carried
\* by the Buy events folded for it so far (not the last, not the sum).
C3_TotalBuysIsMaxRunningTotal ==
    route \in RunningTotalRoutes =>
      \A user \in DOMAIN userStats :
        userStats[user].totalBuys = SeqMax(ValsOf(events, "Buy", user))

\* C3 on the handlers that compare before they store (final-summary and
\* the raw-RPC leaderboard): the maximum is kept.
C3_TotalBuysIsMaxWhereCompared ==
    route \in {"summary", "lbRpc"} =>
      \A user \in DOMAIN userStats :
        userStats[user].totalBuys = SeqMax(ValsOf(events, "Buy", user))

\* C4: the stored totalClaims of a participant is the sum of the amounts of
\* the Claim events folded for it so far, and once the Claim scan has
\* ended it is the sum of the amounts of all its Claim logs on the chain
\* from the deploy block to the height; a participant with a Claim log has
\* a record.
C4_TotalClaimsIsSumOfAmounts ==
    route = "summary" =>
      /\ \A user \in DOMAIN userStats :
           userStats[user].totalClaims = SeqSum(ValsOf(events, "Claim", user))
      /\ ScanComplete("Claim") =>
           \A user \in {"0xab", "0xcd"} :
             LET amounts == ChainValsOf("Claim", user, claimDeployBlock, latestBlock)
             IN  IF amounts = << >>
                 THEN user \in DOMAIN userStats => userStats[user].totalClaims = 0
                 ELSE /\ user \in DOMAIN userStats
                      /\ userStats[user].totalClaims = SeqSum(amounts)

\* C4 witness: a finished build in which one participant claimed twice,
\* different amounts, in different sub-ranges, and its row carries the sum.
C4_Witness ==
    /\ route = "summary"
    /\ response.status = 200
    /\ Len(LogCalls("Claim")) >= 2
    /\ \E user \in DOMAIN userStats :
         LET amounts == ValsOf(events, "Claim", user)
         IN  /\ Len(amounts) = 2
             /\ amounts[1] # amounts[2]
             /\ \E i \in 1..Len(response.rows) :
                  /\ response.rows[i].wallet = user
                  /\ response.rows[i].totalClaims = amounts[1] + amounts[2]

\* ------------------------------------------------------------------------
\* Failures
\* ------------------------------------------------------------------------
\* C5: a failed eth_getLogs is the last call the build issues (no further
\* chunk, no enrichment read) and the build has answered 500 with no rows.
C5_FailedLogQueryEndsTheBuild ==
    \A i \in 1..Len(rpcLog) :
      (rpcLog[i].method = "eth_getLogs" /\ rpcLog[i].answer = "failed") =>
        /\ i = Len(rpcLog)
        /\ pc = "done"
        /\ response.status = 500
        /\ "rows" \notin DOMAIN response

\* C5 witness: the log query of a later sub-range fails after an earlier
\* sub-range's logs were folded.
C5_Witness ==
    /\ route = "summary"
    /\ Len(rpcLog) >= 3
    /\ rpcLog[Len(rpcLog)].method = "eth_getLogs"
    /\ rpcLog[Len(rpcLog)].answer = "failed"
    /\ DOMAIN userStats # {}
    /\ response.status = 500

BonusCalls(user) ==
    { i \in 1..Len(rpcLog) :
        /\ rpcLog[i].method = "eth_call"
        /\ rpcLog[i].kind = "bonusPercent"
        /\ rpcLog[i].wallet = user }

RowsOf(user) ==
    { i \in 1..Len(response.rows) : response.rows[i].wallet = user }

EnrichingRoutes == {"summary", "lbRpc"}

\* C6: a failed bonusPercent read never aborts the build; the 200 response
\* has exactly one row for every participant with a non-zero counter, the
\* row's counters are the folded ones, and its bonusPercent is 0 when the
\* participant's read failed and the value the read returned otherwise.
C6_FailedEnrichmentIsTolerated ==
    route \in EnrichingRoutes =>
      /\ (\E i \in 1..Len(rpcLog) :
            rpcLog[i].method = "eth_call" /\ rpcLog[i].answer = "failed")
           => response.status # 500
      /\ response.status = 200 =>
           LET buys(u)   == SeqMax(ValsOf(events, "Buy", u))
               claims(u) == SeqSum(ValsOf(events, "Claim", u))
               kept      == { u \in DOMAIN userStats : buys(u) # 0 \/ claims(u) # 0 }
           IN  /\ Len(response.rows) = Cardinality(kept)
               /\ \A u \in kept :
                    /\ Cardinality(BonusCalls(u)) = 1
                    /\ Cardinality(RowsOf(u)) = 1
                    /\ \A i \in RowsOf(u) : \A c \in BonusCalls(u) :
                         /\ response.rows[i].totalBuys = buys(u)
                         /\ response.rows[i].totalClaims = claims(u)
                         /\ response.rows[i].bonusPercent =
                              (IF rpcLog[c].answer = "failed" THEN 0
                               ELSE rpcLog[c].value)

\* C6 witness: two participants, the read of the first one fails, the read
\* of the second returns a non-zero bonus, and both have their row.
C6_Witness ==
    /\ route = "summary"
    /\ response.status = 200
    /\ Len(response.rows) = 2
    /\ Len(userOrder) = 2
    /\ \A c \in BonusCalls(userOrder[1]) : rpcLog[c].answer = "failed"
    /\ \A c \in BonusCalls(userOrder[2]) :
         rpcLog[c].answer = "ok" /\ rpcLog[c].value >= 1
    /\ \E i \in 1..2 : response.rows[i].bonusPercent >= 1
    /\ \E i \in 1..2 : response.rows[i].bonusPercent = 0

(* the logs the handler's scans cover: its kinds, deploy block to height *)
ScannedLogs ==
    SelectSeq(chainLogs,
              LAMBDA l : /\ l.block >= deployOf(l.kind)
                         /\ l.block <= latestBlock
                         /\ (l.kind = "Buy" \/ route = "summary"))

RowsSorted(rows) ==
    \A i \in 1..(Len(rows) - 1) :
      \/ rows[i].totalBuys > rows[i + 1].totalBuys
      \/ /\ rows[i].totalBuys = rows[i + 1].totalBuys
         /\ rows[i].bonusPercent >= rows[i + 1].bonusPercent

\* C7: in the chunked handlers there is no response before the build ends,
\* and the response is either 200 with nothing but rows -- then no height or
\* log query failed, every log in the scanned range was decoded, every
\* participant of those logs has its one row and the rows are sorted -- or
\* 500 with an error text, a detail message and no rows.
C7_RowsOrOneFailure ==
    route \in ChunkedRoutes =>
      /\ pc # "done" => response = [status |-> 0]
      /\ pc = "done" =>
           \/ /\ response.status = 200
              /\ DOMAIN response = {"status", "rows"}
              /\ \A i \in 1..Len(rpcLog) :
                   rpcLog[i].method \in {"eth_blockNumber", "eth_getLogs"}
                     => rpcLog[i].answer = "ok"
              /\ \A i \in 1..Len(ScannedLogs) :
                   /\ ScannedLogs[i].wellFormed
                   /\ \E j \in 1..Len(response.rows) :
                        response.rows[j].wallet =
                          toLowerCase(getAddress(ScannedLogs[i].user))
              /\ \A j \in 1..Len(response.rows) :
                   /\ Cardinality(RowsOf(response.rows[j].wallet)) = 1
                   /\ \E i \in 1..Len(ScannedLogs) :
                        response.rows[j].wallet =
                          toLowerCase(getAddress(ScannedLogs[i].user))
              /\ RowsSorted(response.rows)
           \/ /\ response.status = 500
              /\ DOMAIN response = {"status", "error", "details"}
              /\ response.error = errorText(route)
              /\ response.details.text # ""

\* C7 witness: a log that cannot be decoded is met after another log was
\* folded; the build answers 500 although it holds a non-empty Map.
C7_Witness ==
    /\ route \in {"summary", "lbRpc"}
    /\ pc = "done"
    /\ response.status = 500
    /\ response.details.text = "parseLog: no matching event"
    /\ Len(events) >= 1
    /\ DOMAIN userStats # {}

\* ------------------------------------------------------------------------
\* Chunked and unchunked scans
\* ------------------------------------------------------------------------
Ids(logs) == [i \in 1..Len(logs) |-> logs[i].logIndex]

EventsOfKind(kind) == SelectSeq(events, LAMBDA ev : ev.kind = kind)

(* what one unchunked query over the scan's whole range returns *)
Unchunked(kind) == getLogs(chainLogs, kind, deployOf(kind), chainHeight)

EmptyAcc == [stats |-> << >>, order |-> << >>, events |-> << >>, threw |-> FALSE]

(* the Buy scan has just ended and nothing else has touched the Map *)
OnlyBuysFolded ==
    \/ route = "summary" /\ pc = "claimScan" /\ LogCalls("Claim") = << >>
    \/ route = "lbRpc" /\ pc = "enrich" /\ enrichIdx = 1
    \/ route = "lbProvider" /\ pc = "buyScan" /\ fromBlock > latestBlock

\* C8: once a chunked scan has ended, the events it folded are, in order,
\* the logs one unchunked query over [deploy, height] returns, whatever the
\* chunk size; the Map it built is the Map the fold of that one result
\* builds; and the single-query handler folds that same sequence.
C8_ChunkedScanEqualsSingleQuery ==
    /\ route \in ChunkedRoutes =>
         /\ \A kind \in Kinds :
              ScanComplete(kind) =>
                Ids(EventsOfKind(kind)) = Ids(Unchunked(kind))
         /\ OnlyBuysFolded =>
              LET whole == foldLogs(route, EmptyAcc, Unchunked("Buy"))
              IN  userStats = whole.stats /\ userOrder = whole.order
    /\ (route = "single" /\ pc = "maxBonus") =>
         Ids(events) = Ids(Unchunked("Buy"))

\* C8 witness: a scan of several sub-ranges of more than one block that
\* found logs in two of them.
C8_Witness ==
    /\ route = "lbRpc"
    /\ pc = "enrich"
    /\ chunkSizeBlocks >= 1
    /\ Len(LogCalls("Buy")) >= 2
    /\ Len(events) = 2
    /\ events[1].block <= LogCalls("Buy")[1].toBlock
    /\ events[2].block > LogCalls("Buy")[1].toBlock

RECURSIVE ResultsInOrder(_)
ResultsInOrder(calls) ==
    IF calls = << >> THEN << >>
    ELSE LET c == Head(calls)
         IN  (IF c.method = "eth_getLogs" /\ c.answer = "ok"
              THEN Ids(getLogs(chainLogs, c.kind, c.fromBlock, c.toBlock))
              ELSE << >>) \o ResultsInOrder(Tail(calls))

\* C9: the log queries of one scan are issued in strictly increasing block
\* order, and at every moment the events folded so far are exactly the
\* results of the queries answered so far, query after query in the order
\* issued and within a query in the order the node returned them (so a
\* query's results are folded before the next query is issued).
C9_QueriesAndFoldsInBlockOrder ==
    /\ \A kind \in Kinds :
         LET q == LogCalls(kind)
         IN  \A i \in 1..(Len(q) - 1) : q[i].fromBlock < q[i + 1].fromBlock
    /\ Ids(events) = ResultsInOrder(rpcLog)

\* C9 witness: two logs returned by one query, then a further query.
C9_Witness ==
    /\ route \in ChunkedRoutes
    /\ Len(LogCalls("Buy")) >= 2
    /\ Len(events) = 2
    /\ events[1].kind = "Buy"
    /\ events[2].kind = "Buy"
    /\ events[2].block <= LogCalls("Buy")[1].toBlock
    /\ LogCalls("Buy")[2].answer = "ok"

\* ------------------------------------------------------------------------
\* Deploy block above the height
\* ------------------------------------------------------------------------
RangeIsEmpty ==
    /\ buyDeployBlock > chainHeight
    /\ route = "summary" => claimDeployBlock > chainHeight

\* C10: when the deploy block is above the current height, a handler whose
\* configuration is complete issues no eth_getLogs, folds no event, and,
\* unless some other call failed, answers 200 with an empty row sequence.
C10_EmptyRangeIssuesNoLogQuery ==
    (RangeIsEmpty /\ ~(route = "single" /\ EnvMissing)) =>
      /\ \A i \in 1..Len(rpcLog) : rpcLog[i].method # "eth_getLogs"
      /\ events = << >>
      /\ (pc = "done" /\ \A i \in 1..Len(rpcLog) : rpcLog[i].answer = "ok") =>
           (response.status = 200 /\ response.rows = << >>)

\* C10 on the chunked handlers, whose loops test fromBlock <= latestBlock
\* before the first query: the statement holds.
C10_EmptyRangeChunked ==
    (RangeIsEmpty /\ route \in ChunkedRoutes) =>
      /\ \A i \in 1..Len(rpcLog) : rpcLog[i].method # "eth_getLogs"
      /\ events = << >>
      /\ (pc = "done" /\ \A i \in 1..Len(rpcLog) : rpcLog[i].answer = "ok") =>
           (response.status = 200 /\ response.rows = << >>)

\* ------------------------------------------------------------------------
\* Rows
\* ------------------------------------------------------------------------
\* C11: in the handlers that filter on the folded counters, a participant
\* whose totalBuys and totalClaims are both 0 after folding has no row in
\* the 200 response, whatever bonusPercent was read for it, and every
\* participant with a non-zero totalBuys or totalClaims has its row.
C11_ZeroCountersHaveNoRow ==
    (route \in EnrichingRoutes /\ response.status = 200) =>
      \A u \in DOMAIN userStats :
        IF userStats[u].totalBuys = 0 /\ userStats[u].totalClaims = 0
        THEN RowsOf(u) = {}
        ELSE Cardinality(RowsOf(u)) = 1

\* C11 witness: one participant whose only events carry 0 and whose bonus
\* read returned a non-zero value has no row; another with no buy but a
\* non-zero claim has its row.
C11_Witness ==
    /\ route = "summary"
    /\ response.status = 200
    /\ \E u \in DOMAIN userStats :
         /\ userStats[u] = Stats(0, 0, MaxBonus)
         /\ RowsOf(u) = {}
    /\ \E u \in DOMAIN userStats :
         /\ userStats[u].totalBuys = 0
         /\ userStats[u].totalClaims >= 1
         /\ RowsOf(u) # {}

\* C12: in every 200 response, each row's totalBuys is at least the next
\* row's, and where the two are equal its bonusPercent is at least the
\* next row's.
C12_AdjacentRowsInRankOrder ==
    response.status = 200 =>
      \A i \in 1..(Len(response.rows) - 1) :
        /\ response.rows[i].totalBuys >= response.rows[i + 1].totalBuys
        /\ response.rows[i].totalBuys = response.rows[i + 1].totalBuys =>
             response.rows[i].bonusPercent >= response.rows[i + 1].bonusPercent

\* C12 witness: two wallets with equal totalBuys, put into the Map lower
\* bonusPercent first, come out higher bonusPercent first.
C12_Witness ==
    /\ route = "summary"
    /\ response.status = 200
    /\ Len(response.rows) = 2
    /\ response.rows[1].totalBuys = response.rows[2].totalBuys
    /\ response.rows[1].bonusPercent > response.rows[2].bonusPercent
    /\ response.rows[1].wallet = userOrder[2]

(* the ParticipantIds of the model in ascending order *)
SortedIds == <<"0xab", "0xcd">>
IdIndex(wallet) ==
    CHOOSE i \in 1..Len(SortedIds) : SortedIds[i] = toLowerCase(wallet)

TiedRows(a, b) ==
    a.totalBuys = b.totalBuys /\ a.bonusPercent = b.bonusPercent

(* the place in the fold order of the first event of a participant *)
FirstEvent(wallet) ==
    CHOOSE i \in 1..Len(events) :
      /\ events[i].user = wallet
      /\ \A j \in 1..(i - 1) : events[j].user # wallet

\* C13: two rows of a 200 response with equal totalBuys and equal
\* bonusPercent are in ascending order of their ParticipantId.
C13_TiesByAscendingId ==
    (route \in EnrichingRoutes /\ response.status = 200) =>
      \A i \in 1..Len(response.rows) : \A j \in 1..Len(response.rows) :
        (i < j /\ TiedRows(response.rows[i], response.rows[j])) =>
          IdIndex(response.rows[i].wallet) < IdIndex(response.rows[j].wallet)

\* C13 as amended: two rows with equal totalBuys and equal bonusPercent are
\* in the order in which the first events of their participants were folded
\* (the insertion order of the Map, which the stable sort keeps).
C13_TiesInFirstSeenOrder ==
    response.status = 200 =>
      \A i \in 1..Len(response.rows) : \A j \in 1..Len(response.rows) :
        (i < j /\ TiedRows(response.rows[i], response.rows[j])) =>
          FirstEvent(response.rows[i].wallet) < FirstEvent(response.rows[j].wallet)

\* C13 witness: two tied rows, the greater ParticipantId first because its
\* event was scanned first, both with a bonus read.
C13_Witness ==
    /\ route = "summary"
    /\ response.status = 200
    /\ Len(response.rows) = 2
    /\ TiedRows(response.rows[1], response.rows[2])
    /\ response.rows[1].bonusPercent = MaxBonus
    /\ response.rows[1].wallet = "0xcd"
    /\ response.rows[2].wallet = "0xab"
    /\ events[1].user = "0xcd"

\* ------------------------------------------------------------------------
\* Two invocations
\* ------------------------------------------------------------------------
\* C14: when GET is invoked a second time against the same chain and the
\* node gives every call the answer it gave the first time (same height,
\* same logs, same read results, same failed reads), the second response
\* has the status of the first and, for a 200, the same rows with the same
\* fields in the same order.
C14_SecondBuildSameOutput ==
    (past # << >> /\ pc = "done" /\ rpcLog = past[1].rpcLog) =>
      /\ response.status = past[1].response.status
      /\ response.status = 200 => response.rows = past[1].response.rows

\* C14 witness: both invocations answered 200 with the same two rows, one
\* of them with a bonus read from the contract and one whose read failed.
C14_Witness ==
    /\ past # << >>
    /\ pc = "done"
    /\ route = "summary"
    /\ rpcLog = past[1].rpcLog
    /\ response.status = 200
    /\ Len(response.rows) = 2
    /\ response.rows[1].totalClaims >= 1
    /\ \E i \in 1..Len(rpcLog) : rpcLog[i].method = "eth_call" /\ rpcLog[i].answer = "failed"
    /\ \E i \in 1..Len(rpcLog) : rpcLog[i].method = "eth_call" /\ rpcLog[i].value = MaxBonus

\* ------------------------------------------------------------------------
\* Participants
\* ------------------------------------------------------------------------
(* the logs of the handler's range sent for one address, in any spelling *)
LogsOfAddress(kind, id) ==
    SelectSeq(getLogs(chainLogs, kind, deployOf(kind),
                      IF route = "single" THEN LATEST ELSE latestBlock),
              LAMBDA l : toLowerCase(getAddress(l.user)) = id)

\* C15: no two rows of a 200 response have the same lower-cased address,
\* and logs whose user differs only in letter case are one participant:
\* the address has at most one row, whose counters account for the logs of
\* every spelling (the number of Buy logs where the handler counts them,
\* the sum of the claimed amounts where it sums them).
C15_OneRowPerLowerCasedAddress ==
    response.status = 200 =>
      /\ \A i \in 1..Len(response.rows) : \A j \in 1..Len(response.rows) :
           i # j => toLowerCase(response.rows[i].wallet)
                      # toLowerCase(response.rows[j].wallet)
      /\ \A id \in {"0xab", "0xcd"} :
           LET mine == { i \in 1..Len(response.rows) :
                           toLowerCase(response.rows[i].wallet) = id }
           IN  /\ Cardinality(mine) <= 1
               /\ \A i \in mine :
                    /\ route = "single" =>
                         response.rows[i].totalBuys = Len(LogsOfAddress("Buy", id))
                    /\ route = "summary" =>
                         response.rows[i].totalClaims =
                           SeqSum([k \in 1..Len(LogsOfAddress("Claim", id)) |->
                                     LogsOfAddress("Claim", id)[k].val])

\* C15 witness: two Buy logs of one address, one sent in lower case and one
\* in upper case, counted into a single row by the handler that does not
\* lower-case its keys.
C15_Witness ==
    /\ route = "single"
    /\ response.status = 200
    /\ Len(chainLogs) = 2
    /\ chainLogs[1].user = "0xab"
    /\ chainLogs[2].user = "0xAB"
    /\ Len(response.rows) = 1
    /\ response.rows[1].totalBuys = Len(chainLogs)

\* ------------------------------------------------------------------------
\* The row cap
\* ------------------------------------------------------------------------
(* the participants of the Map that have no row in the response *)
LeftOut ==
    { u \in DOMAIN userStats : RowsOf(u) = {} /\ ~skipRow(route, userStats[u]) }

CappedAfterSort ==
    /\ Len(response.rows) <= ROW_CAP
    /\ Len(response.rows) + Cardinality(LeftOut) > Len(response.rows) =>
         Len(response.rows) = ROW_CAP
    /\ \A u \in LeftOut : \A i \in 1..Len(response.rows) :
         userStats[u].totalBuys <= response.rows[i].totalBuys

\* C16: a 200 response has at most ROW_CAP rows; rows are left out only
\* when there are more than ROW_CAP of them, and no participant left out
\* has a greater totalBuys than a participant that has a row.
C16_AtMostRowCapRowsAfterSort ==
    (route \in {"single", "summary"} /\ response.status = 200) => CappedAfterSort

\* C16 on the handler that has a cap (part_001: sort, then slice(0, 100)).
C16_CapAfterSortWhereCapped ==
    (route = "single" /\ response.status = 200) => CappedAfterSort

\* ------------------------------------------------------------------------
\* The score
\* ------------------------------------------------------------------------
ScoreIsCounterTimesUnitTimesBonus(row) ==
    row.bonusValueUsd * 100 =
      row.totalBuys * PRICE_PER_BUY_MILLI * (100 + row.bonusPercent)

\* C17: every row's score is its own totalBuys x 0.10 x (1 + its own
\* bonusPercent / 100); in thousandths of a dollar,
\* bonusValueUsd = totalBuys x (100 + bonusPercent).
C17_ScoreFromOwnCounterAndBonus ==
    response.status = 200 =>
      \A i \in 1..Len(response.rows) :
        ScoreIsCounterTimesUnitTimesBonus(response.rows[i])

\* C17 on the handlers that multiply by the bonus (final-summary and both
\* leaderboard handlers).
C17_ScoreWhereBonusApplied ==
    (route # "single" /\ response.status = 200) =>
      \A i \in 1..Len(response.rows) :
        ScoreIsCounterTimesUnitTimesBonus(response.rows[i])

\* ------------------------------------------------------------------------
\* The RPC client's errors
\* ------------------------------------------------------------------------
CallRpcRoutes == {"summary", "lbRpc"}

(* the height or log query issued last failed: its error is what the
   handler's catch reports *)
LastCallFailed ==
    /\ rpcLog # << >>
    /\ rpcLog[Len(rpcLog)].method \in {"eth_blockNumber", "eth_getLogs"}
    /\ rpcLog[Len(rpcLog)].answer = "failed"

\* C18: whichever way a call of callRpc fails (the transport, a non-success
\* HTTP status, an error object in the envelope), it yields no result and
\* throws an error whose message has a cause and names the method called.
C18_EveryFailureNamesTheMethod ==
    (route \in CallRpcRoutes /\ LastCallFailed) =>
      /\ response.status = 500
      /\ "rows" \notin DOMAIN response
      /\ response.details.text # ""
      /\ response.details.method = rpcLog[Len(rpcLog)].method

\* C18 on the failures callRpc throws itself (HTTP status, invalid JSON,
\* error object): no result, and the message names the method.
C18_ThrownByCallRpcNamesTheMethod ==
    (route \in CallRpcRoutes /\ LastCallFailed) =>
      /\ response.status = 500
      /\ "rows" \notin DOMAIN response
      /\ response.details.text # ""
      /\ response.details.text # "fetch failed" =>
           response.details.method = rpcLog[Len(rpcLog)].method

\* ------------------------------------------------------------------------
\* Logs that cannot be decoded
\* ------------------------------------------------------------------------
(* the places, among the logs returned so far, of those parseLog rejects *)
Undecodable(returned) ==
    { k \in 1..Len(returned) : ~chainLogs[returned[k]].wellFormed }

\* C19: no event is ever folded for a log that cannot be decoded, and no
\* participant exists without a decoded event.  Once a query has returned
\* such a log, the events folded are exactly the logs returned before the
\* first such log (nothing after it is folded: it was not stepped over),
\* the query is the last call, and the build has answered 500 with no rows.
C19_UndecodableLogEndsTheBuild ==
    LET returned == ResultsInOrder(rpcLog)
        bad      == Undecodable(returned)
    IN  /\ \A i \in 1..Len(events) : chainLogs[events[i].logIndex].wellFormed
        /\ \A u \in DOMAIN userStats : \E i \in 1..Len(events) : events[i].user = u
        /\ bad # {} =>
             LET first == CHOOSE k \in bad : \A m \in bad : k <= m
             IN  /\ Ids(events) = SubSeq(returned, 1, first - 1)
                 /\ rpcLog[Len(rpcLog)].method = "eth_getLogs"
                 /\ pc = "done"
                 /\ response.status = 500
                 /\ "rows" \notin DOMAIN response
                 /\ response.details.text = "parseLog: no matching event"

\* C19 witness: the Claim scan of final-summary gets a log it cannot decode
\* followed by one it could; nothing is folded and the build answers 500.
C19_Witness ==
    /\ route = "summary"
    /\ Len(chainLogs) = 2
    /\ chainLogs[1].kind = "Claim" /\ ~chainLogs[1].wellFormed
    /\ chainLogs[2].kind = "Claim" /\ chainLogs[2].wellFormed
    /\ chainLogs[2].block = chainLogs[1].block
    /\ Len(LogCalls("Claim")) >= 1
    /\ rpcLog[Len(rpcLog)].answer = "ok"
    /\ events = << >>
    /\ response.status = 500

\* ------------------------------------------------------------------------
\* Configuration
\* ------------------------------------------------------------------------
(* the endpoint and the contract address are configured; buyDeployBlock is
   the number the handler reads, 0 for BUY_DEPLOY_BLOCK = "0" *)
RequiredConfigPresent == env.rpcUrl /\ env.address

\* C20: a handler whose endpoint or contract address is absent issues no
\* RPC call and ends in one 500; a handler whose endpoint and address are
\* present, whatever its deploy block (0 included), is not answered as
\* misconfigured.
C20_RejectedOnlyWhenConfigAbsent ==
    /\ ~RequiredConfigPresent =>
         /\ rpcLog = << >>
         /\ pc = "done" => response.status = 500
    /\ RequiredConfigPresent => response # RespondMissingEnv

\* C20 but for the deploy block 0: absent endpoint or address means no call
\* and one 500, and a complete configuration with a deploy block of at
\* least 1 (or the literals of the chunked handlers) is never rejected.
C20_RejectedWhenAbsentOrDeployBlockZero ==
    /\ ~RequiredConfigPresent =>
         /\ rpcLog = << >>
         /\ pc = "done" => response = RespondMissingEnv
    /\ (RequiredConfigPresent /\ (route = "single" => buyDeployBlock >= 1)) =>
         response # RespondMissingEnv

\* ------------------------------------------------------------------------
\* The fold, step by step
\* ------------------------------------------------------------------------
(* every Buy log a node can deliver next, whatever is on the chain *)
AnyBuyLog ==
    { LogRec(0, "Buy", u, v, 0, TRUE) : u \in TopicAddrs, v \in 0..MaxVal }

\* C21: in the handlers that compare before they store, folding a Buy log
\* whose running total is at most the participant's stored totalBuys leaves
\* the whole Map as it was (the participant's three fields and the key
\* order included), and folding any Buy log twice gives the Map that
\* folding it once gives.
C21_FoldOfNoGreaterTotalChangesNothing ==
    route \in CompareRoutes =>
      \A log \in AnyBuyLog :
        LET user == userKey(route, log)
            once == foldBuy(route, userStats, log)
        IN  /\ (user \in DOMAIN userStats /\ log.val <= userStats[user].totalBuys) =>
                 /\ once = userStats
                 /\ ~foldSets(route, userStats, log)
            /\ foldBuy(route, once, log) = once

\* C21 witness: the scan has folded a smaller running total for a
\* participant after a greater one, and the stored total is still the
\* greater one once the scan is over.
C21_Witness ==
    /\ route \in CompareRoutes
    /\ pc = "enrich"
    /\ Len(events) = 2
    /\ \A i \in 1..2 : events[i].kind = "Buy" /\ toLowerCase(events[i].user) = "0xab"
    /\ events[2].val < events[1].val
    /\ DOMAIN userStats = {"0xab"}
    /\ userStats["0xab"].totalBuys = events[1].val

\* ------------------------------------------------------------------------
\* Enrichment
\* ------------------------------------------------------------------------
(* what the bonusPercent read of a participant has given so far: the value
   it returned, 0 when it failed or was not issued yet *)
ReadOf(user) ==
    IF \E c \in BonusCalls(user) : rpcLog[c].answer = "ok"
    THEN rpcLog[CHOOSE c \in BonusCalls(user) : rpcLog[c].answer = "ok"].value
    ELSE 0

\* C22: in the enriching handlers a participant's stored bonusPercent is at
\* every moment the value its own read returned (0 while the read is not
\* issued or when it failed), no participant is read twice, and a 200
\* response is built only when every key of the Map has had its read: each
\* row carries the value of the read issued for the row's own wallet.
C22_BonusComesFromOwnReadBeforeRows ==
    route \in EnrichingRoutes =>
      /\ \A u \in DOMAIN userStats :
           /\ Cardinality(BonusCalls(u)) <= 1
           /\ userStats[u].bonusPercent = ReadOf(u)
      /\ response.status = 200 =>
           /\ \A u \in DOMAIN userStats : Cardinality(BonusCalls(u)) = 1
           /\ \A i \in 1..Len(response.rows) :
                /\ response.rows[i].wallet \in DOMAIN userStats
                /\ response.rows[i].bonusPercent = ReadOf(response.rows[i].wallet)

\* C22 witness: two participants have a row; the first read returned a
\* bonus, the second read failed, and the rows carry 1 and 0 accordingly.
C22_Witness ==
    /\ route \in EnrichingRoutes
    /\ response.status = 200
    /\ Len(userOrder) = 2
    /\ Len(response.rows) = 2
    /\ \A c \in BonusCalls(userOrder[1]) : rpcLog[c].answer = "ok" /\ rpcLog[c].value = MaxBonus
    /\ \A c \in BonusCalls(userOrder[2]) : rpcLog[c].answer = "failed"
    /\ \A i \in 1..2 :
         response.rows[i].bonusPercent =
           (IF response.rows[i].wallet = userOrder[1] THEN MaxBonus ELSE 0)

(* positions in rpcLog of the log queries and of the bonusPercent reads *)
LogQueryPositions == { i \in 1..Len(rpcLog) : rpcLog[i].method = "eth_getLogs" }

ReadPositions ==
    { i \in 1..Len(rpcLog) :
        rpcLog[i].method = "eth_call" /\ rpcLog[i].kind = "bonusPercent" }

(* the keys the folded events give the Map *)
KeysOfEvents == { userKey(route, events[i]) : i \in 1..Len(events) }

\* C23: in the enriching handlers every log query comes before every
\* bonusPercent read; when the first read is issued every scan of the
\* handler has run to the height with all its queries answered, and the Map
\* has the keys of the folded events; the reads go to the keys of that Map
\* in its order, one each, and a 200 response exists only when all of them
\* have been read.
C23_ScanThenEnrichThenRank ==
    route \in EnrichingRoutes =>
      /\ \A q \in LogQueryPositions, c \in ReadPositions : q < c
      /\ ReadPositions # {} =>
           /\ \A q \in LogQueryPositions : rpcLog[q].answer = "ok"
           /\ \A kind \in (IF route = "summary" THEN Kinds ELSE {"Buy"}) :
                deployOf(kind) <= latestBlock =>
                  /\ LogCalls(kind) # << >>
                  /\ LogCalls(kind)[Len(LogCalls(kind))].toBlock = latestBlock
           /\ DOMAIN userStats = KeysOfEvents
      /\ Cardinality(ReadPositions) <= Len(userOrder)
      /\ \A c \in ReadPositions :
           rpcLog[c].wallet = userOrder[1 + Cardinality({ d \in ReadPositions : d < c })]
      /\ response.status = 200 =>
           /\ { rpcLog[c].wallet : c \in ReadPositions } = KeysOfEvents
           /\ Cardinality(ReadPositions) = Cardinality(KeysOfEvents)

\* C23 witness: a build whose second participant entered the Map in the
\* Claim scan; both were read, after the last log query, and the build
\* returned rows.
C23_Witness ==
    /\ route = "summary"
    /\ response.status = 200
    /\ Len(events) = 2
    /\ events[1].kind = "Buy" /\ events[2].kind = "Claim"
    /\ userKey(route, events[1]) # userKey(route, events[2])
    /\ Cardinality(ReadPositions) = 2
    /\ rpcLog[Len(rpcLog)].wallet = userKey(route, events[2])
    /\ Len(response.rows) = 2

(* what callRpc gave the read of a participant, as rpcLog recorded it *)
ResultOf(user) ==
    IF \E c \in BonusCalls(user) : rpcLog[c].answer = "ok"
    THEN Returned(ReadOf(user))
    ELSE Thrown("RPC error", "eth_call")

(* the loop "for (const [wallet, stats] of userStats.entries())" run over
   the wallets in the given order, each read giving what ResultOf says *)
RECURSIVE enrichInOrder(_, _)
enrichInOrder(m, order) ==
    IF order = << >>
    THEN m
    ELSE enrichInOrder(enrichStats(m, Head(order), ResultOf(Head(order))), Tail(order))

(* the Map as the scan left it: no bonus stored yet *)
AtEndOfScan == [k \in DOMAIN userStats |-> [userStats[k] EXCEPT !.bonusPercent = 0]]

\* C24: in the enriching handlers, with the result of each participant's
\* read held fixed, running the read loop over the participants in any
\* order stores the bonuses the build stored, and ranking that Map gives
\* the rows the build returned.
C24_AnyReadOrderGivesTheSameRows ==
    (route \in EnrichingRoutes /\ response.status = 200) =>
      \A order \in { o \in OrdersOf(DOMAIN userStats) : Len(o) = Len(userOrder) } :
        LET m == enrichInOrder(AtEndOfScan, order)
        IN  /\ m = userStats
            /\ rankRows(route, m, userOrder, 0) = response.rows

\* C24 witness: a build of two participants whose reads returned different
\* bonuses, so that the two read orders store in a different sequence.
C24_Witness ==
    /\ route \in EnrichingRoutes
    /\ response.status = 200
    /\ Len(userOrder) = 2
    /\ \A u \in DOMAIN userStats : ResultOf(u).ok
    /\ ReadOf(userOrder[1]) = 0
    /\ ReadOf(userOrder[2]) = MaxBonus
    /\ Len(response.rows) = 2

\* ------------------------------------------------------------------------
\* Invocations in flight together
\* ------------------------------------------------------------------------
(* the Map m with, for every wallet, the bonus its read in log returned *)
ReadsIn(log, m) ==
    LET oks(k) == { c \in 1..Len(log) : /\ log[c].method = "eth_call"
                                          /\ log[c].wallet = k
                                          /\ log[c].answer = "ok" }
    IN  [k \in DOMAIN m |->
           [m[k] EXCEPT !.bonusPercent =
              IF oks(k) = {} THEN 0 ELSE log[CHOOSE c \in oks(k) : TRUE].value]]

(* the rows of an invocation that runs alone against this chain and whose
   reads are answered as log says *)
AloneRows(log) ==
    LET buys == foldLogs(route, EmptyAcc, Unchunked("Buy"))
        all  == IF route = "summary"
                THEN foldLogs(route, buys, Unchunked("Claim"))
                ELSE buys
    IN  rankRows(route, ReadsIn(log, all.stats), all.order, 0)

\* C25: with two invocations of GET in flight and their awaits interleaved
\* in any way, each invocation has an empty Map until its own first log
\* query, its Map holds the keys of the events it folded itself, a 200
\* response carries the rows the invocation gives alone against this chain
\* with its reads answered the same, and a 500 response follows a failed
\* call of the invocation's own.
C25_InterleavedBuildsAreIndependent ==
    Len(past) = 1 =>
      \A b \in {Running, past[1]} :
        /\ (\A c \in 1..Len(b.rpcLog) : b.rpcLog[c].method # "eth_getLogs")
              => b.userStats = << >>
        /\ DOMAIN b.userStats = { userKey(route, b.events[i]) : i \in 1..Len(b.events) }
        /\ b.response.status = 200 => b.response.rows = AloneRows(b.rpcLog)
        /\ b.response.status = 500 =>
              /\ b.rpcLog # << >>
              /\ b.rpcLog[Len(b.rpcLog)].answer # "ok"
              /\ b.rpcLog[Len(b.rpcLog)].method # "eth_call"

\* C25 witness: one invocation has returned two rows, one with claims, while
\* the other, started before the first ended, is suspended between its two
\* reads.
C25_Witness ==
    /\ Len(past) = 1
    /\ route = "summary"
    /\ response.status = 200
    /\ Len(response.rows) = 2
    /\ \E i \in 1..2 : response.rows[i].totalClaims >= 1
    /\ past[1].pc = "enrich"
    /\ past[1].enrichIdx = 2
    /\ Len(past[1].userOrder) = 2

\* ------------------------------------------------------------------------
\* The empty leaderboard
\* ------------------------------------------------------------------------
(* every call the build has made so far was answered *)
AllAnswered == \A c \in 1..Len(rpcLog) : rpcLog[c].answer = "ok"

\* C26: in the chunked handlers, when the scans have run to their end with
\* every call answered and the scanned range holds no log, the Map is empty,
\* no bonusPercent read is issued, the read loop has nothing to do, and the
\* response is 200 with an empty row sequence.
C26_EmptyScanGivesEmptySuccess ==
    (/\ route \in ChunkedRoutes
     /\ pc \in {"enrich", "done"}
     /\ AllAnswered
     /\ ScannedLogs = << >>) =>
      /\ events = << >>
      /\ userStats = << >>
      /\ userOrder = << >>
      /\ ReadPositions = {}
      /\ pc = "enrich" => enrichIdx > Len(userOrder)
      /\ pc = "done" => response = [status |-> 200, rows |-> << >>]

\* C26 witness: the final-summary handler has scanned a range of several
\* sub-ranges above the only logs of the chain, found nothing, and answered
\* 200 with no row.
C26_Witness ==
    /\ route = "summary"
    /\ pc = "done"
    /\ AllAnswered
    /\ chainLogs # << >>
    /\ Len(LogCalls("Buy")) >= 2
    /\ Len(LogCalls("Claim")) >= 1
    /\ events = << >>
    /\ response.status = 200
    /\ response.rows = << >>

\* ------------------------------------------------------------------------
\* What a fold step leaves alone
\* ------------------------------------------------------------------------
(* every log a node can deliver next to the final-summary handler *)
AnyLog ==
    { LogRec(0, k, u, v, 0, TRUE) : k \in Kinds, u \in TopicAddrs, v \in 0..MaxVal }

\* C27: in the final-summary handler, folding any log into the Map leaves
\* the record of every other participant as it was and adds no key but the
\* log's; a Buy log leaves the participant's totalClaims and bonusPercent
\* as they were (0 for a new participant), a Claim log leaves totalBuys and
\* bonusPercent as they were (0 for a new participant); and a participant
\* for whom only Claim logs were folded has totalBuys 0.
C27_FoldTouchesOnlyItsOwnField ==
    route = "summary" =>
      /\ \A log \in AnyLog :
           LET user  == userKey(route, log)
               was   == IF user \in DOMAIN userStats THEN userStats[user] ELSE Stats(0, 0, 0)
               after == foldLog(route, userStats, log)
           IN  /\ DOMAIN after = DOMAIN userStats \cup {user}
               /\ \A k \in DOMAIN userStats \ {user} : after[k] = userStats[k]
               /\ after[user].bonusPercent = was.bonusPercent
               /\ log.kind = "Buy" => after[user].totalClaims = was.totalClaims
               /\ log.kind = "Claim" => after[user].totalBuys = was.totalBuys
      /\ \A u \in DOMAIN userStats :
           ValsOf(events, "Buy", u) = << >> => userStats[u].totalBuys = 0

\* C27 witness: the scans folded a Buy of one participant and then a Claim
\* of another, first seen there: the first keeps its total and has no
\* claims, the second has its claims and a totalBuys of 0.
C27_Witness ==
    /\ route = "summary"
    /\ pc = "enrich"
    /\ enrichIdx = 1
    /\ Len(events) = 2
    /\ events[1].kind = "Buy" /\ events[2].kind = "Claim"
    /\ userOrder = << "0xab", "0xcd" >>
    /\ userStats["0xab"] = Stats(events[1].val, 0, 0)
    /\ userStats["0xcd"] = Stats(0, events[2].val, 0)

\* ------------------------------------------------------------------------
\* The order of the events
\* ------------------------------------------------------------------------
(* the rearrangements of a sequence of logs *)
PermutationsOf(logs) ==
    LET n == Len(logs)
    IN  { [i \in 1..n |-> logs[p[i]]] :
            p \in { q \in [1..n -> 1..n] : \A i, j \in 1..n : q[i] = q[j] => i = j } }

\* C28: in the comparing handlers, once the scans have ended, folding the
\* scanned logs in any other order gives a Map with the same keys and, for
\* every key, the same totalBuys and the same totalClaims as the Map the
\* build holds.
C28_CountersIndependentOfEventOrder ==
    (route \in CompareRoutes /\ pc = "enrich") =>
      \A logs \in PermutationsOf(ScannedLogs) :
        LET m == foldLogs(route, EmptyAcc, logs).stats
        IN  /\ DOMAIN m = DOMAIN userStats
            /\ \A k \in DOMAIN m :
                 /\ m[k].totalBuys = userStats[k].totalBuys
                 /\ m[k].totalClaims = userStats[k].totalClaims

\* C28 witness: the scan folded three Buy logs of one participant whose
\* running totals go up and then down, so that the stored total is neither
\* the first nor the last one folded.
C28_Witness ==
    /\ route \in CompareRoutes
    /\ pc = "enrich"
    /\ Len(events) = 3
    /\ \A i \in 1..3 : events[i].kind = "Buy" /\ userKey(route, events[i]) = "0xab"
    /\ events[1].val < events[2].val
    /\ events[3].val < events[2].val
    /\ userStats["0xab"].totalBuys = events[2].val

\* ------------------------------------------------------------------------
\* Termination
\* ------------------------------------------------------------------------
(* an iteration of a scan loop that goes on to the next one *)
ScanLoopsOn ==
    /\ pc \in {"buyScan", "claimScan"}
    /\ pc' = pc
    /\ rpcLog' # rpcLog

(* the log queries and reads of a build are no more than the blocks of its
   ranges and the keys of its Map *)
CallsBounded ==
    /\ \A kind \in Kinds :
         Len(LogCalls(kind)) <=
           (IF route \in ChunkedRoutes
            THEN Max(latestBlock - deployOf(kind) + 1, 0)
            ELSE 1)
    /\ Cardinality(ReadPositions) <= Len(userOrder)

\* C29: for every deploy block, height and chunk size >= 0, an iteration of
\* a scan loop that is followed by another one has raised fromBlock by at
\* least one block; a build never issues more log queries of a kind than
\* its range has blocks, nor more bonusPercent reads than its Map has keys;
\* and, every call being answered or failing in the end, every build comes
\* to a 200 or a 500 response.
C29_EveryBuildTerminates ==
    /\ [][ScanLoopsOn => fromBlock' >= fromBlock + 1]_vars
    /\ []CallsBounded
    /\ <>(response.status \in {200, 500})

\* C29 witness: a build with a chunk size of 0 that scanned a block at a
\* time, read two participants and returned rows.
C29_Witness ==
    /\ route = "summary"
    /\ chunkSizeBlocks = 0
    /\ Len(LogCalls("Buy")) >= 2
    /\ Len(LogCalls("Claim")) >= 2
    /\ Cardinality(ReadPositions) = 2
    /\ response.status = 200

\* ------------------------------------------------------------------------
\* The height
\* ------------------------------------------------------------------------
HeightPositions == { i \in 1..Len(rpcLog) : rpcLog[i].method = "eth_blockNumber" }

\* C30: in the handlers that go through callRpc, eth_blockNumber is the
\* first call of a build and is made once; every log query is made after
\* it was answered with a number, and none reaches above that number; each
\* scan that ran to its end, Buy and Claim alike, ended on a query whose
\* toBlock is that number; and when the answer is no number, or the call
\* fails, it is the only call of the build, which answers 500.
C30_HeightReadOnceBoundsEveryScan ==
    (route \in CallRpcRoutes /\ rpcLog # << >>) =>
      /\ HeightPositions = {1}
      /\ rpcLog[1].answer = "ok" => latestBlock = chainHeight
      /\ \A q \in LogQueryPositions :
           /\ rpcLog[1].answer = "ok"
           /\ rpcLog[q].toBlock <= chainHeight
      /\ \A kind \in Kinds :
           (ScanComplete(kind) /\ deployOf(kind) <= chainHeight) =>
             LogCalls(kind)[Len(LogCalls(kind))].toBlock = chainHeight
      /\ rpcLog[1].answer # "ok" =>
           /\ Len(rpcLog) = 1
           /\ pc = "done"
           /\ response.status = 500

\* C30 witness: a final-summary build whose Buy scan and Claim scan started
\* at different blocks, took a different number of queries, and both ended
\* at the height read at the start.
C30_Witness ==
    /\ route = "summary"
    /\ pc = "enrich"
    /\ chainHeight >= 2
    /\ buyDeployBlock < claimDeployBlock
    /\ Len(LogCalls("Buy")) > Len(LogCalls("Claim"))
    /\ Len(LogCalls("Claim")) >= 1
    /\ LogCalls("Buy")[Len(LogCalls("Buy"))].toBlock = chainHeight
    /\ LogCalls("Claim")[Len(LogCalls("Claim"))].toBlock = chainHeight
    /\ Cardinality(HeightPositions) = 1

====
